---- MODULE Spec2Model ----
(***************************************************************************)
(* JSON-to-ZIP converter: the file utilities (fileUtils), the API client,  *)
(* and the DropZone, FileConverter and App components, as state machines.  *)
(* The specifications:                                                     *)
(*   SpecValidate  validateJsonData applied to JavaScript values           *)
(*   SpecParse     parseMultipleJsonFiles over a list of files             *)
(*   SpecApi       one exported API operation against server and timer     *)
(*   SpecDrop      DropZone, FileConverter and App under the user's events *)
(*   SpecUtils     the filename utilities and the promise-wrapped readers  *)
(***************************************************************************)
EXTENDS Integers, Sequences, FiniteSets, TLC

(***************************************************************************)
(* JavaScript values, tagged with their kind.  v is the value's text.      *)
(***************************************************************************)
Undefined == [t |-> "undefined", v |-> ""]

Null == [t |-> "null", v |-> ""]

Bool(b) == [t |-> "boolean", v |-> b]

Num(n) == [t |-> "number", v |-> n]

Str(s) == [t |-> "string", v |-> s]

Obj(s) == [t |-> "object", v |-> s]

Arr(s) == [t |-> "array", v |-> s]

\* The outcome of a JSON.parse call that throws.
SyntaxError == [t |-> "SyntaxError", v |-> ""]

\* typeof: null, objects and arrays are all "object".
typeof(x) ==
    CASE x.t = "undefined" -> "undefined"
      [] x.t = "null" -> "object"
      [] x.t = "boolean" -> "boolean"
      [] x.t = "number" -> "number"
      [] x.t = "string" -> "string"
      [] x.t = "object" -> "object"
      [] x.t = "array" -> "object"
      [] OTHER -> "object"

\* ToBoolean, as applied by !x, x || y and if (x).
ToBoolean(x) ==
    CASE x.t = "undefined" -> FALSE
      [] x.t = "null" -> FALSE
      [] x.t = "boolean" -> x.v = "true"
      [] x.t = "number" -> x.v \notin {"0", "NaN"}
      [] x.t = "string" -> x.v # ""
      [] OTHER -> TRUE

\* JSON.parse on the texts the model uses; every other text is a syntax error.
JSONparse(s) ==
    CASE s = "{}" -> Obj("{}")
      [] s = "{\"a\":1}" -> Obj("{\"a\":1}")
      [] s = "[]" -> Arr("[]")
      [] s = "[1]" -> Arr("[1]")
      [] s = "1" -> Num("1")
      [] s = "0" -> Num("0")
      [] s = "true" -> Bool("true")
      [] s = "false" -> Bool("false")
      [] s = "\"s\"" -> Str("s")
      [] s = "\"\"" -> Str("")
      [] s = "null" -> Null
      [] s = "{\"message\":\"bad\"}" -> Obj("{\"message\":\"bad\"}")
      [] s = "{\n  \"a\": 1\n}" -> Obj("{\"a\":1}")
      [] s = "[\n  1\n]" -> Arr("[1]")
      [] OTHER -> SyntaxError

\* The texts given to the validators: valid JSON of every kind, and invalid.
JsonTexts ==
    {"", " ", "{}", "{\"a\":1}", "[]", "[1]", "1", "0", "true", "false",
     "\"s\"", "\"\"", "null", "not json", "{a:1}"}

\* The values a caller may pass to validateJsonData.
JsValues ==
    {Undefined, Null, Bool("true"), Bool("false"), Num("0"), Num("1"),
     Num("NaN"), Obj("{}"), Obj("{\"a\":1}"), Arr("[]"), Arr("[1]")}
    \cup {Str(s) : s \in JsonTexts}

isValidJson(jsonString) == JSONparse(jsonString) # SyntaxError

\* validateJsonData of a JavaScript value: the pair {isValid, errors}.
validateJsonData(data) ==
    LET obj(d) ==
            IF typeof(d) # "object"
            THEN [isValid |-> FALSE, errors |-> <<"JSON must be an object or array">>]
            ELSE [isValid |-> TRUE, errors |-> <<>>]
    IN  IF ~ToBoolean(data)
        THEN [isValid |-> FALSE, errors |-> <<"Data is required">>]
        ELSE IF typeof(data) = "string"
        THEN IF ~isValidJson(data.v)
             THEN [isValid |-> FALSE, errors |-> <<"Invalid JSON format">>]
             ELSE IF JSONparse(data.v) = SyntaxError
             THEN [isValid |-> FALSE, errors |-> <<"Failed to parse JSON">>]
             ELSE obj(JSONparse(data.v))
        ELSE obj(data)

(***************************************************************************)
(* Files.  A file has a name, a declared MIME type, a size in bytes, and   *)
(* what a FileReader makes of it: whether the read succeeds, and its text. *)
(***************************************************************************)
DefaultAllowedTypes == {"application/json", "text/plain"}

DefaultMaxSize == 10 * 1024 * 1024

validateFileType(file, allowedTypes) == file.type \in allowedTypes

validateFileSize(file, maxSize) == file.size <= maxSize

\* The kinds of file the model draws from: each check passing and failing,
\* alone and together with a later one.
FileKinds ==
    { [type |-> "application/json", size |-> 1024, readOk |-> TRUE, content |-> "{\"a\":1}"],
      [type |-> "text/plain", size |-> DefaultMaxSize, readOk |-> TRUE, content |-> "[1]"],
      [type |-> "application/json", size |-> 4, readOk |-> TRUE, content |-> "null"],
      [type |-> "image/png", size |-> 1024, readOk |-> TRUE, content |-> "{}"],
      [type |-> "application/json", size |-> DefaultMaxSize + 1, readOk |-> TRUE, content |-> "{}"],
      [type |-> "image/png", size |-> DefaultMaxSize + 1, readOk |-> FALSE, content |-> "not json"],
      [type |-> "application/json", size |-> 1024, readOk |-> FALSE, content |-> "{}"],
      [type |-> "text/plain", size |-> 8, readOk |-> TRUE, content |-> "not json"],
      [type |-> "application/json", size |-> 0, readOk |-> TRUE, content |-> ""],
      [type |-> "application/json", size |-> 1, readOk |-> TRUE, content |-> "1"] }

FileNames == <<"a.json", "b.json", "c.json", "d.json", "e.json">>

\* The file of kind k at position i of a list: names are distinct by position.
MkFile(i, k) ==
    [name |-> FileNames[i], type |-> k.type, size |-> k.size,
     readOk |-> k.readOk, content |-> k.content]

\* Bound: the longest file list handed to parseMultipleJsonFiles or dropped.
MaxFiles == 2

FileLists ==
    UNION { { [i \in 1..n |-> MkFile(i, ks[i])] : ks \in [1..n -> FileKinds] } : n \in 0..MaxFiles }

(***************************************************************************)
(* Filenames.  A string is the sequence of its characters.                 *)
(***************************************************************************)
Lower ==
    <<"a", "b", "c", "d", "e", "f", "g", "h", "i", "j", "k", "l", "m",
      "n", "o", "p", "q", "r", "s", "t", "u", "v", "w", "x", "y", "z">>

Upper ==
    <<"A", "B", "C", "D", "E", "F", "G", "H", "I", "J", "K", "L", "M",
      "N", "O", "P", "Q", "R", "S", "T", "U", "V", "W", "X", "Y", "Z">>

Digits == {"0", "1", "2", "3", "4", "5", "6", "7", "8", "9"}

Letters == {Lower[i] : i \in 1..26} \cup {Upper[i] : i \in 1..26}

\* A character the class [a-z0-9.-] with the i flag matches.
IsSafeChar(c) == c \in Letters \cup Digits \cup {".", "-"}

\* .replace(/[^a-z0-9.-]/gi, '_')
ReplaceUnsafe(str) ==
    [i \in 1..Len(str) |-> IF IsSafeChar(str[i]) THEN str[i] ELSE "_"]

\* .replace(/_{2,}/g, '_'): of a run of underscores the first one stays.
RECURSIVE CollapseUnderscores(_)
CollapseUnderscores(str) ==
    IF Len(str) < 2 THEN str
    ELSE IF str[1] = "_" /\ str[2] = "_"
    THEN CollapseUnderscores(Tail(str))
    ELSE <<str[1]>> \o CollapseUnderscores(Tail(str))

\* .replace(/_{2,}/g, ''): a run of underscores is removed.
RECURSIVE DropUnderscoreRuns(_)
DropUnderscoreRuns(str) ==
    IF Len(str) < 2 THEN str
    ELSE IF str[1] = "_" /\ str[2] = "_"
    THEN LET rest == DropUnderscoreRuns(Tail(str))
         IN  IF rest # <<>> /\ rest[1] = "_" THEN Tail(rest) ELSE rest
    ELSE <<str[1]>> \o DropUnderscoreRuns(Tail(str))

\* .replace(/^_|_$/g, ''): one underscore at the start and one at the end.
TrimUnderscore(str) ==
    LET a == IF str # <<>> /\ str[1] = "_" THEN Tail(str) ELSE str
    IN  IF a # <<>> /\ a[Len(a)] = "_" THEN SubSeq(a, 1, Len(a) - 1) ELSE a

\* sanitizeFilename with the runs of underscores removed, not collapsed.
sanitizeFilenameDropsRuns(filename) ==
    TrimUnderscore(DropUnderscoreRuns(ReplaceUnsafe(filename)))

\* sanitizeFilename without the collapsing step.
sanitizeFilenameNoCollapse(filename) == TrimUnderscore(ReplaceUnsafe(filename))

sanitizeFilename(filename) ==
    TrimUnderscore(CollapseUnderscores(ReplaceUnsafe(filename)))

\* str.split(sep): the pieces between the separators, at least one.
RECURSIVE Split(_, _)
Split(str, sep) ==
    IF \A i \in 1..Len(str) : str[i] # sep THEN <<str>>
    ELSE LET k == CHOOSE i \in 1..Len(str) :
                      str[i] = sep /\ \A j \in 1..(i - 1) : str[j] # sep
         IN  <<SubSeq(str, 1, k - 1)>> \o Split(SubSeq(str, k + 1, Len(str)), sep)

toLowerCase(str) ==
    [i \in 1..Len(str) |->
        IF \E k \in 1..26 : Upper[k] = str[i]
        THEN Lower[CHOOSE k \in 1..26 : Upper[k] = str[i]]
        ELSE str[i]]

\* filename.split('.').pop()?.toLowerCase() || ''
getFileExtension(filename) ==
    LET parts == Split(filename, ".")
        popped == parts[Len(parts)]
    IN  IF toLowerCase(popped) # <<>> THEN toLowerCase(popped) ELSE <<>>

\* Bound: the length of the filenames drawn (the examples are longer).
MaxNameLen == 3

NameChars == {"a", "Z", "7", ".", "-", "_", " ", "!"}

ExampleNames ==
    { <<"m", "y", " ", "f", "i", "l", "e", "!", "!", ".", "j", "s", "o", "n">>,
      <<"a", "r", "c", "h", "i", "v", "e", ".", "t", "a", "r", ".", "g", "z">>,
      <<"n", "o", "e", "x", "t">>,
      <<"D", "A", "T", "A", ".", "J", "S", "O", "N">> }

Names == UNION { [1..n -> NameChars] : n \in 0..MaxNameLen } \cup ExampleNames

(***************************************************************************)
(* State.                                                                  *)
(***************************************************************************)
VARIABLES
    \* validateJsonData: the value passed, the pair returned, calls made
    vData, vResult, vCalls,
    \* parseMultipleJsonFiles: the list passed, the position of the async
    \* function, the loop index, the local results array, the settlement the
    \* caller sees, and the FileReader events in the order they happened
    pFiles, pPc, pIdx, pResults, pOutcome, pReads,
    \* API client, one operation: its name, its argument and the options
    \* object the caller passed, the position of the
    \* async function, the settlement the caller sees and where a rejection
    \* came from; the fetch, its response, the Promise.race, the timer and
    \* its deadline, the time of the call, the requests sent
    aOp, aArg, aOptions, aPc, aOutcome, aCause, aNet, aResponse, aRace, aTimer,
    aDeadline, aStart, aRequests,
    \* the read of the response body: none, reading, read or failed
    aBody,
    \* the clock, in ticks, and the document: object URLs, anchors, downloads
    now, dom,
    \* which component the page shows: "DropZone", "FileConverter", "App",
    \* or "handleFileDrop" for a bare drop target
    mounted,
    \* DropZone: its props, its state (isDragOver, files, errors), the calls
    \* of onFilesSelected, the last intake (the list handed to validateFiles,
    \* the files it accepted and the selection before it), the last drag
    \* event with the state before it, and the latest event when it was a drop
    dzMultiple, dzDisabled, dzAcceptedTypes, isDragOver, dzFiles, dzErrors,
    dzSelected, dzIntake, dzLastDrag, dzDrop,
    \* FileConverter: its state (dragActive, jsonInput, error), the texts of
    \* the reads in flight in the order they were started, and the last drag
    \* event
    dragActive, fcJsonInput, fcError, fcReads, fcLastDrag,
    \* and the JSON file supplied last
    fcLatest,
    \* App: its state (jsonInput, isLoading, status, error), the position of
    \* convertToZip, the conversions started and the downloads made, the
    \* deadlines of the status timers that are set, the clock in seconds, the
    \* texts of the reads in flight, the JSON file supplied last, and
    \* whether the input was edited by other means than a file
    appJsonInput, appIsLoading, appStatus, appError, appPc, appConversions,
    appDownloads, appTimers, appNow, appReads, appLatest, appEdited,
    \* a call of a utility: the function, its argument, its result (of a
    \* reader function: the promise it returned)
    uFn, uArg, uResult,
    \* the FileReader of a reader function: its readyState, and the calls
    \* made on it and on the promise's resolve and reject, in order
    rReader, rLog

valVars == <<vData, vResult, vCalls>>

parseVars == <<pFiles, pPc, pIdx, pResults, pOutcome, pReads>>

apiVars ==
    <<aOp, aArg, aOptions, aPc, aOutcome, aCause, aNet, aResponse, aRace, aTimer,
      aDeadline, aStart, aRequests, aBody, now, dom>>

dropVars ==
    <<mounted, dzMultiple, dzDisabled, dzAcceptedTypes, isDragOver, dzFiles,
      dzErrors, dzSelected, dzIntake, dzLastDrag, dzDrop,
      dragActive, fcJsonInput, fcError, fcReads, fcLastDrag, fcLatest,
      appJsonInput, appIsLoading, appStatus, appError, appPc, appConversions,
      appDownloads, appTimers, appNow, appReads, appLatest, appEdited>>

utilVars == <<uFn, uArg, uResult, rReader, rLog>>

vars == <<valVars, parseVars, apiVars, dropVars, utilVars>>

\* What the actions of one component leave alone: the other components.
NotValidate == <<parseVars, apiVars, dropVars, utilVars>>

NotParse == <<valVars, apiVars, dropVars, utilVars>>

NotApi == <<valVars, parseVars, dropVars, utilVars>>

NotDrop == <<valVars, parseVars, apiVars, utilVars>>

NotUtils == <<valVars, parseVars, apiVars, dropVars>>

(***************************************************************************)
(* validateJsonData, applied to one value after another.                   *)
(***************************************************************************)
\* Bound: the number of validateJsonData calls in one behaviour.
MaxCalls == 4

NoResult == [isValid |-> FALSE, errors |-> <<"(not called)">>]

InitValidate ==
    /\ vData = Undefined
    /\ vResult = NoResult
    /\ vCalls = 0

CallValidateJsonData(data) ==
    /\ vCalls < MaxCalls
    /\ vData' = data
    /\ vResult' = validateJsonData(data)
    /\ vCalls' = vCalls + 1
    /\ UNCHANGED NotValidate

NextValidate == \E data \in JsValues : CallValidateJsonData(data)

(***************************************************************************)
(* parseMultipleJsonFiles.  The async function runs from one await to the  *)
(* next: the loop head up to the start of a read, and a read's callback up *)
(* to the next loop head.                                                  *)
(***************************************************************************)
Pending == [state |-> "pending", value |-> <<>>, error |-> <<>>]

Fulfilled(value) == [state |-> "fulfilled", value |-> value, error |-> <<>>]

Rejected(error) == [state |-> "rejected", value |-> <<>>, error |-> error]

\* The message of the error the catch block rethrows for a file.
ProcessingError(file, message) == <<"Error processing ", file.name, ": ">> \o message

InitParse ==
    /\ pFiles = <<>>
    /\ pPc = "idle"
    /\ pIdx = 0
    /\ pResults = <<>>
    /\ pOutcome = Pending
    /\ pReads = <<>>

\* The call: results = [], and the loop is entered.
parseMultipleJsonFiles(files) ==
    /\ pPc = "idle"
    /\ pFiles' = files
    /\ pPc' = "loop"
    /\ pIdx' = 1
    /\ pResults' = <<>>
    /\ UNCHANGED <<pOutcome, pReads>>
    /\ UNCHANGED NotParse

\* ParseIterate with the catch block swallowing the error of a file that fails
\* the type or size check and going on to the next file (partial success).
ParseIterateSkipsFailure ==
    /\ pPc = "loop"
    /\ IF pIdx > Len(pFiles)
       THEN /\ pPc' = "resolved"
            /\ pOutcome' = Fulfilled(pResults)
            /\ UNCHANGED <<pIdx, pResults, pReads>>
       ELSE LET file == pFiles[pIdx] IN
            IF \/ ~validateFileType(file, DefaultAllowedTypes)
               \/ ~validateFileSize(file, DefaultMaxSize)
            THEN /\ pIdx' = pIdx + 1
                 /\ UNCHANGED <<pPc, pOutcome, pResults, pReads>>
            ELSE /\ pPc' = "reading"
                 /\ pReads' = Append(pReads, <<"readAsText", pIdx>>)
                 /\ UNCHANGED <<pIdx, pResults, pOutcome>>
    /\ UNCHANGED pFiles
    /\ UNCHANGED NotParse

\* ParseIterate without the await: the read is started and the loop moves on
\* to the next file at once.
ParseIterateNoAwait ==
    /\ pPc = "loop"
    /\ IF pIdx > Len(pFiles)
       THEN /\ pPc' = "resolved"
            /\ pOutcome' = Fulfilled(pResults)
            /\ UNCHANGED <<pIdx, pResults, pReads>>
       ELSE /\ pReads' = Append(pReads, <<"readAsText", pIdx>>)
            /\ pIdx' = pIdx + 1
            /\ UNCHANGED <<pPc, pResults, pOutcome>>
    /\ UNCHANGED pFiles
    /\ UNCHANGED NotParse

\* The loop body with the size check put before the type check.
ParseIterateSizeFirst ==
    /\ pPc = "loop"
    /\ IF pIdx > Len(pFiles)
       THEN /\ pPc' = "resolved"
            /\ pOutcome' = Fulfilled(pResults)
            /\ UNCHANGED <<pIdx, pResults, pReads>>
       ELSE LET file == pFiles[pIdx] IN
            IF ~validateFileSize(file, DefaultMaxSize)
            THEN /\ pPc' = "rejected"
                 /\ pOutcome' = Rejected(ProcessingError(file, <<"File size exceeds limit">>))
                 /\ UNCHANGED <<pIdx, pResults, pReads>>
            ELSE IF ~validateFileType(file, DefaultAllowedTypes)
            THEN /\ pPc' = "rejected"
                 /\ pOutcome' = Rejected(ProcessingError(file, <<"Invalid file type: ", file.type>>))
                 /\ UNCHANGED <<pIdx, pResults, pReads>>
            ELSE /\ pPc' = "reading"
                 /\ pReads' = Append(pReads, <<"readAsText", pIdx>>)
                 /\ UNCHANGED <<pIdx, pResults, pOutcome>>
    /\ UNCHANGED pFiles
    /\ UNCHANGED NotParse

\* The loop head: past the last file the function returns results; else
\* the type and size checks of the file, and the read is started.
ParseIterate ==
    /\ pPc = "loop"
    /\ IF pIdx > Len(pFiles)
       THEN /\ pPc' = "resolved"
            /\ pOutcome' = Fulfilled(pResults)
            /\ UNCHANGED <<pIdx, pResults, pReads>>
       ELSE LET file == pFiles[pIdx] IN
            IF ~validateFileType(file, DefaultAllowedTypes)
            THEN /\ pPc' = "rejected"
                 /\ pOutcome' = Rejected(ProcessingError(file, <<"Invalid file type: ", file.type>>))
                 /\ UNCHANGED <<pIdx, pResults, pReads>>
            ELSE IF ~validateFileSize(file, DefaultMaxSize)
            THEN /\ pPc' = "rejected"
                 /\ pOutcome' = Rejected(ProcessingError(file, <<"File size exceeds limit">>))
                 /\ UNCHANGED <<pIdx, pResults, pReads>>
            ELSE /\ pPc' = "reading"
                 /\ pReads' = Append(pReads, <<"readAsText", pIdx>>)
                 /\ UNCHANGED <<pIdx, pResults, pOutcome>>
    /\ UNCHANGED pFiles
    /\ UNCHANGED NotParse

\* reader.onload: the promise resolves with the text; the function goes on
\* with the JSON validation and pushes the record or throws.
ReadOnload ==
    /\ pPc = "reading"
    /\ pFiles[pIdx].readOk
    /\ pReads' = Append(pReads, <<"onload", pIdx>>)
    /\ LET file == pFiles[pIdx]
           content == file.content
           validation == validateJsonData(Str(content))
       IN  IF ~validation.isValid
           THEN /\ pPc' = "rejected"
                /\ pOutcome' = Rejected(ProcessingError(file,
                                  <<"Invalid JSON in ", file.name, ": ">> \o validation.errors))
                /\ UNCHANGED <<pIdx, pResults>>
           ELSE /\ pResults' = Append(pResults,
                                  [filename |-> file.name, data |-> JSONparse(content), size |-> file.size])
                /\ pIdx' = pIdx + 1
                /\ pPc' = "loop"
                /\ UNCHANGED pOutcome
    /\ UNCHANGED pFiles
    /\ UNCHANGED NotParse

\* reader.onerror: the promise rejects with the event, which has no message.
ReadOnerror ==
    /\ pPc = "reading"
    /\ ~pFiles[pIdx].readOk
    /\ pReads' = Append(pReads, <<"onerror", pIdx>>)
    /\ pPc' = "rejected"
    /\ pOutcome' = Rejected(ProcessingError(pFiles[pIdx], <<"undefined">>))
    /\ UNCHANGED <<pFiles, pIdx, pResults>>
    /\ UNCHANGED NotParse

NextParse ==
    \/ \E files \in FileLists : parseMultipleJsonFiles(files)
    \/ ParseIterate
    \/ ReadOnload
    \/ ReadOnerror

(***************************************************************************)
(* The document and the download sequence.                                 *)
(***************************************************************************)
\* callers: who ran each download sequence, in order.
InitDom ==
    [urls |-> {}, attached |-> {}, log |-> <<>>, downloads |-> 0, next |-> 1,
     callers |-> <<>>]

\* One DOM call on the document d, for the blob, URL and anchor numbered d.next.
DomStep(d, step) ==
    LET logged == [d EXCEPT !.log = Append(@, step)] IN
    CASE step = "createObjectURL" -> [logged EXCEPT !.urls = @ \cup {d.next}]
      [] step = "createElement" -> logged
      [] step = "appendChild" -> [logged EXCEPT !.attached = @ \cup {d.next}]
      [] step = "click" ->
             [logged EXCEPT !.downloads = IF d.next \in d.urls THEN @ + 1 ELSE @]
      [] step = "removeChild" -> [logged EXCEPT !.attached = @ \ {d.next}]
      [] step = "revokeObjectURL" -> [logged EXCEPT !.urls = @ \ {d.next}]
      [] OTHER -> logged

RECURSIVE RunDom(_, _)
RunDom(d, steps) ==
    IF steps = <<>> THEN [d EXCEPT !.next = @ + 1]
    ELSE RunDom(DomStep(d, Head(steps)), Tail(steps))

\* The DOM calls of downloadBlob, in program order.
DownloadBlobSteps ==
    <<"createObjectURL", "createElement", "appendChild", "click",
      "removeChild", "revokeObjectURL">>

\* The download with the cleanup left out.
ApiDownloadStepsNoCleanup(op) ==
    <<"createObjectURL", "createElement", "appendChild", "click">>

\* The DOM calls of a conversion operation after response.blob(), in program
\* order (the same in the three of them).
ApiDownloadSteps(op) ==
    CASE op = "convertJsonToZip" ->
             <<"createObjectURL", "createElement", "appendChild", "click",
               "removeChild", "revokeObjectURL">>
      [] op = "uploadAndConvertJson" ->
             <<"createObjectURL", "createElement", "appendChild", "click",
               "removeChild", "revokeObjectURL">>
      [] op = "convertMultipleJsonToZip" ->
             <<"createObjectURL", "createElement", "appendChild", "click",
               "removeChild", "revokeObjectURL">>
      [] OTHER -> <<>>

(***************************************************************************)
(* The API client.                                                         *)
(***************************************************************************)
REQUEST_TIMEOUT == 30000

\* The length of a clock tick, in milliseconds.
TickMs == 10 * 1000

\* Bound: the ticks the clock runs for.
MaxTicks == 4

\* Bound: the downloadBlob calls in one behaviour.
MaxDownloads == 1

NowMs == now * TickMs

ApiOps ==
    {"convertJsonToZip", "uploadAndConvertJson", "getConversionStatus",
     "convertMultipleJsonToZip", "validateJsonData", "getSupportedFormats"}

BlobOps == {"convertJsonToZip", "uploadAndConvertJson", "convertMultipleJsonToZip"}

File(type) == [t |-> "File", v |-> type]

\* The arguments the model passes to each operation.
ApiArgs(op) ==
    CASE op = "convertJsonToZip" ->
             {Undefined, Null, Obj("{\"a\":1}"), Arr("[1]"), Str("{}"), Num("1")}
      [] op = "uploadAndConvertJson" ->
             {Undefined, File("application/json"), File("text/plain"), Obj("{}")}
      [] op = "convertMultipleJsonToZip" ->
             {Undefined, Arr("[]"), Arr("[1]"), Obj("{}")}
      [] op = "getConversionStatus" -> {Undefined, Str(""), Str("job1")}
      [] op = "validateJsonData" -> {Obj("{}"), Str("not json")}
      [] OTHER -> {Undefined}

ApiError(message, status, data) ==
    [name |-> "ApiError", message |-> message, status |-> status, data |-> data]

\* An error that is not an ApiError: it has no status and no data.
JsError(name, message) == [name |-> name, message |-> message]

NoError == [name |-> "none", message |-> ""]

\* The message of the ApiError an operation's catch block makes.
FailureMessage(op) ==
    CASE op = "convertJsonToZip" -> "Failed to convert JSON to ZIP"
      [] op = "uploadAndConvertJson" -> "Failed to upload and convert JSON file"
      [] op = "getConversionStatus" -> "Failed to get conversion status"
      [] op = "convertMultipleJsonToZip" -> "Failed to convert multiple JSON objects to ZIP"
      [] op = "validateJsonData" -> "Failed to validate JSON data"
      [] OTHER -> "Failed to get supported formats"

\* The catch block with the instanceof test left out: every error is wrapped.
CatchBlockAlwaysWraps(op, error) == ApiError(FailureMessage(op), 500, Null)

\* The catch block rethrowing what it caught.
CatchBlockRethrows(op, error) == error

\* The catch block of an operation: what it throws for the error it caught.
CatchBlock(op, error) ==
    IF error.name = "ApiError" THEN error ELSE ApiError(FailureMessage(op), 500, Null)

\* The error thrown by the local validation of an operation's argument, or
\* NoError when the argument passes.
PreconditionError(op, arg) ==
    CASE op = "convertJsonToZip" ->
             IF ~ToBoolean(arg) \/ typeof(arg) # "object"
             THEN ApiError("Invalid JSON data provided", 400, Null) ELSE NoError
      [] op = "uploadAndConvertJson" ->
             IF ~ToBoolean(arg) \/ ~(arg.t = "File" /\ arg.v = "application/json")
             THEN ApiError("Please provide a valid JSON file", 400, Null) ELSE NoError
      [] op = "getConversionStatus" ->
             IF ~ToBoolean(arg)
             THEN ApiError("Job ID is required", 400, Null) ELSE NoError
      [] op = "convertMultipleJsonToZip" ->
             IF arg.t # "array" \/ arg.v = "[]"
             THEN ApiError("Please provide a non-empty array of JSON objects", 400, Null)
             ELSE NoError
      [] OTHER -> NoError

Url(op, arg) ==
    CASE op = "convertJsonToZip" -> <<"POST", "/convert/json-to-zip">>
      [] op = "uploadAndConvertJson" -> <<"POST", "/convert/upload-json-to-zip">>
      [] op = "getConversionStatus" -> <<"GET", "/convert/status/", arg.v>>
      [] op = "convertMultipleJsonToZip" -> <<"POST", "/convert/batch-json-to-zip">>
      [] op = "validateJsonData" -> <<"POST", "/validate/json">>
      [] OTHER -> <<"GET", "/formats">>

\* An object is the function from its own keys to their values.
NoOptions == [k \in {} |-> Undefined]

\* The options objects the model passes: none of the keys, falsy values, a
\* full set, a key holding undefined, and a key the client does not know.
CallerOptions ==
    { NoOptions,
      ("compressionLevel" :> Num("0")),
      ("createFolders" :> Bool("false")) @@ ("createSeparateFiles" :> Bool("false")),
      ("compression" :> Str("STORE")) @@ ("compressionLevel" :> Num("9"))
          @@ ("fileNaming" :> Str("index")),
      ("compression" :> Undefined),
      ("password" :> Str("secret")) }

\* The operations with an options parameter get each of them.
ApiOptions(op) ==
    IF op \in {"convertJsonToZip", "uploadAndConvertJson", "convertMultipleJsonToZip"}
    THEN CallerOptions
    ELSE {NoOptions}

\* obj.key: undefined when obj has no such key.
Get(obj, key) == IF key \in DOMAIN obj THEN obj[key] ELSE Undefined

\* a || b
Or(a, b) == IF ToBoolean(a) THEN a ELSE b

\* { ...first, ...second }: a key of second overrides the same key of first.
Spread(first, second) ==
    [k \in DOMAIN first \cup DOMAIN second |->
        IF k \in DOMAIN second THEN second[k] ELSE first[k]]

\* JSON.stringify of an object: a key whose value is undefined is left out.
JSONstringify(obj) == [k \in {key \in DOMAIN obj : obj[key] # Undefined} |-> obj[k]]

\* The options literal with the spread of the caller's object put first.
RequestOptionsSpreadFirst(op, options) ==
    IF op = "convertJsonToZip"
    THEN Spread(options,
                ("compression" :> Or(Get(options, "compression"), Str("DEFLATE")))
                @@ ("compressionLevel" :> Or(Get(options, "compressionLevel"), Num("6")))
                @@ ("createFolders" :> Or(Get(options, "createFolders"), Bool("false"))))
    ELSE Spread(options,
                ("compression" :> Or(Get(options, "compression"), Str("DEFLATE")))
                @@ ("compressionLevel" :> Or(Get(options, "compressionLevel"), Num("6")))
                @@ ("createSeparateFiles" :> Or(Get(options, "createSeparateFiles"), Bool("true")))
                @@ ("fileNaming" :> Or(Get(options, "fileNaming"), Str("auto"))))

\* The options literal of the request body of the two JSON conversions: the
\* defaults, then the spread of the caller's object.
RequestOptions(op, options) ==
    IF op = "convertJsonToZip"
    THEN Spread(("compression" :> Or(Get(options, "compression"), Str("DEFLATE")))
                @@ ("compressionLevel" :> Or(Get(options, "compressionLevel"), Num("6")))
                @@ ("createFolders" :> Or(Get(options, "createFolders"), Bool("false"))),
                options)
    ELSE Spread(("compression" :> Or(Get(options, "compression"), Str("DEFLATE")))
                @@ ("compressionLevel" :> Or(Get(options, "compressionLevel"), Num("6")))
                @@ ("createSeparateFiles" :> Or(Get(options, "createSeparateFiles"), Bool("true")))
                @@ ("fileNaming" :> Or(Get(options, "fileNaming"), Str("auto"))),
                options)

\* The body of the request an operation sends, as the server reads it.
RequestBody(op, arg, options) ==
    CASE op = "convertJsonToZip" ->
             [data |-> arg, filename |-> "data.zip",
              options |-> JSONstringify(RequestOptions(op, options))]
      [] op = "convertMultipleJsonToZip" ->
             [data |-> arg, filename |-> "batch-data.zip",
              options |-> JSONstringify(RequestOptions(op, options))]
      [] op = "uploadAndConvertJson" ->
             IF DOMAIN options # {}
             THEN [file |-> arg, options |-> JSONstringify(options)]
             ELSE [file |-> arg]
      [] op = "validateJsonData" -> [data |-> arg]
      [] OTHER -> [none |-> TRUE]

\* The responses the server may give: success with a binary or a JSON body,
\* and errors with a JSON body, a text body, an empty body, no content type,
\* and a body that is not the JSON its content type announces.
Responses ==
    { [status |-> 200, contentType |-> "application/zip", body |-> "PK"],
      [status |-> 200, contentType |-> "application/json", body |-> "{\"a\":1}"],
      [status |-> 404, contentType |-> "text/plain", body |-> "Not Found"],
      [status |-> 404, contentType |-> "text/plain", body |-> ""],
      [status |-> 503, contentType |-> "", body |-> "Unavailable"],
      [status |-> 500, contentType |-> "application/json; charset=utf-8",
       body |-> "{\"message\":\"bad\"}"],
      [status |-> 400, contentType |-> "application/json", body |-> "{}"],
      [status |-> 500, contentType |-> "application/json", body |-> "null"],
      [status |-> 502, contentType |-> "application/json", body |-> "not json"] }

NoResponse == [status |-> 0, contentType |-> "", body |-> ""]

ResponseOk(response) == response.status >= 200 /\ response.status <= 299

IsJsonContentType(contentType) ==
    contentType \in {"application/json", "application/json; charset=utf-8"}

DefaultHttpMessage(status) ==
    CASE status = 400 -> "HTTP error! status: 400"
      [] status = 404 -> "HTTP error! status: 404"
      [] status = 500 -> "HTTP error! status: 500"
      [] status = 502 -> "HTTP error! status: 502"
      [] status = 503 -> "HTTP error! status: 503"
      [] OTHER -> "HTTP error! status: ?"

\* errorData.message of a parsed error body.
MessageOf(errorData) ==
    IF errorData = Obj("{\"message\":\"bad\"}") THEN Str("bad") ELSE Undefined

\* handleResponse on a response that is not ok, once the body read has
\* settled (readOk: it fulfilled): the ApiError it throws.
HandleErrorResponse(response, readOk) ==
    LET errorMessage == DefaultHttpMessage(response.status) IN
    IF ~readOk
    THEN ApiError(errorMessage, response.status, Null)
    ELSE IF IsJsonContentType(response.contentType)
    THEN LET errorData == JSONparse(response.body) IN
         IF errorData = SyntaxError \/ errorData.t = "null"
         THEN ApiError(errorMessage, response.status, Null)
         ELSE ApiError(IF ToBoolean(MessageOf(errorData))
                       THEN MessageOf(errorData).v ELSE errorMessage,
                       response.status, errorData)
    ELSE ApiError(IF response.body # "" THEN response.body ELSE errorMessage,
                  response.status, Null)

InitApi ==
    /\ aOp = "none"
    /\ aArg = Undefined
    /\ aOptions = NoOptions
    /\ aPc = "idle"
    /\ aOutcome = Pending
    /\ aCause = "none"
    /\ aNet = "none"
    /\ aResponse = NoResponse
    /\ aRace = "none"
    /\ aTimer = "none"
    /\ aDeadline = 0
    /\ aStart = 0
    /\ aRequests = <<>>
    /\ aBody = "none"
    /\ now = 0
    /\ dom = InitDom

\* The catch block runs and the operation rejects.
Reject(op, error, cause) ==
    /\ aPc' = "rejected"
    /\ aOutcome' = Rejected(CatchBlock(op, error))
    /\ aCause' = cause

\* A call that sends the request and starts the timer before it validates.
ApiCallValidatesLate(op, arg, options) ==
    /\ aPc = "idle"
    /\ aOp' = op
    /\ aArg' = arg
    /\ aOptions' = options
    /\ aStart' = NowMs
    /\ aTimer' = "armed"
    /\ aDeadline' = NowMs + REQUEST_TIMEOUT
    /\ aRequests' = Append(aRequests, [url |-> Url(op, arg),
                                        body |-> RequestBody(op, arg, options)])
    /\ IF PreconditionError(op, arg) # NoError
       THEN /\ Reject(op, PreconditionError(op, arg), "validation")
            /\ aNet' = "pending"
            /\ aRace' = "rejected"
       ELSE /\ aPc' = "fetching"
            /\ aNet' = "pending"
            /\ aRace' = "pending"
            /\ UNCHANGED <<aOutcome, aCause>>
    /\ UNCHANGED <<aResponse, aBody, now, dom>>
    /\ UNCHANGED NotApi

\* A call of an operation: the local validation, then fetchWithTimeout
\* starts the fetch and the timer and the function awaits their race.
ApiCall(op, arg, options) ==
    /\ aPc = "idle"
    /\ aOp' = op
    /\ aArg' = arg
    /\ aOptions' = options
    /\ aStart' = NowMs
    /\ IF PreconditionError(op, arg) # NoError
       THEN /\ Reject(op, PreconditionError(op, arg), "validation")
            /\ UNCHANGED <<aNet, aRace, aTimer, aDeadline, aRequests>>
       ELSE /\ aPc' = "fetching"
            /\ aNet' = "pending"
            /\ aRace' = "pending"
            /\ aTimer' = "armed"
            /\ aDeadline' = NowMs + REQUEST_TIMEOUT
            /\ aRequests' = Append(aRequests, [url |-> Url(op, arg),
                                                body |-> RequestBody(op, arg, options)])
            /\ UNCHANGED <<aOutcome, aCause>>
    /\ UNCHANGED <<aResponse, aBody, now, dom>>
    /\ UNCHANGED NotApi

\* NetRespond with the response handled whatever the state of the race.
NetRespondIgnoresRace(response) ==
    /\ aNet = "pending"
    /\ aNet' = "responded"
    /\ aResponse' = response
    /\ aRace' = "fulfilled"
    /\ aPc' = IF ResponseOk(response) THEN "body" ELSE "errbody"
    /\ aBody' = "reading"
    /\ UNCHANGED <<aOp, aArg, aOptions, aOutcome, aCause, aTimer, aDeadline, aStart,
                   aRequests, now, dom>>
    /\ UNCHANGED NotApi

\* The fetch fulfils with a response (its headers).  If the race is still
\* open the function goes on to handleResponse and awaits the body: the
\* error body of a response that is not ok, the blob or JSON of one that is.
NetRespond(response) ==
    /\ aNet = "pending"
    /\ aNet' = "responded"
    /\ aResponse' = response
    /\ IF aRace = "pending"
       THEN /\ aRace' = "fulfilled"
            /\ aPc' = IF ResponseOk(response) THEN "body" ELSE "errbody"
            /\ aBody' = "reading"
       ELSE UNCHANGED <<aRace, aPc, aBody>>
    /\ UNCHANGED <<aOp, aArg, aOptions, aOutcome, aCause, aTimer, aDeadline, aStart,
                   aRequests, now, dom>>
    /\ UNCHANGED NotApi

\* The fetch rejects (the network call fails).
NetFail ==
    /\ aNet = "pending"
    /\ aNet' = "failed"
    /\ IF aRace = "pending"
       THEN /\ aRace' = "rejected"
            /\ Reject(aOp, JsError("TypeError", "Failed to fetch"), "network")
       ELSE UNCHANGED <<aRace, aPc, aOutcome, aCause>>
    /\ UNCHANGED <<aOp, aArg, aOptions, aResponse, aTimer, aDeadline, aStart, aRequests, aBody,
                   now, dom>>
    /\ UNCHANGED NotApi

\* The timer of fetchWithTimeout fires.
TimerFire ==
    /\ aTimer = "armed"
    /\ NowMs >= aDeadline
    /\ aTimer' = "fired"
    /\ IF aRace = "pending"
       THEN /\ aRace' = "rejected"
            /\ Reject(aOp, JsError("Error", "Request timeout"), "timeout")
       ELSE UNCHANGED <<aRace, aPc, aOutcome, aCause>>
    /\ UNCHANGED <<aOp, aArg, aOptions, aNet, aResponse, aDeadline, aStart, aRequests, aBody,
                   now, dom>>
    /\ UNCHANGED NotApi

\* The body read the function awaits fulfils.
BodyArrives ==
    /\ aPc \in {"errbody", "body"}
    /\ aBody = "reading"
    /\ aBody' = "read"
    /\ IF aPc = "errbody"
       THEN /\ Reject(aOp, HandleErrorResponse(aResponse, TRUE), "http")
            /\ UNCHANGED dom
       ELSE IF aOp \in BlobOps
       THEN /\ dom' = [RunDom(dom, ApiDownloadSteps(aOp)) EXCEPT !.callers = Append(@, aOp)]
            /\ aPc' = "resolved"
            /\ aOutcome' = Fulfilled([success |-> TRUE])
            /\ UNCHANGED aCause
       ELSE IF JSONparse(aResponse.body) = SyntaxError
       THEN /\ Reject(aOp, JsError("SyntaxError", "Unexpected token"), "body")
            /\ UNCHANGED dom
       ELSE /\ aPc' = "resolved"
            /\ aOutcome' = Fulfilled(JSONparse(aResponse.body))
            /\ UNCHANGED <<aCause, dom>>
    /\ UNCHANGED <<aOp, aArg, aOptions, aNet, aResponse, aRace, aTimer, aDeadline, aStart,
                   aRequests, now>>
    /\ UNCHANGED NotApi

\* The body read the function awaits rejects (the connection breaks).
BodyFails ==
    /\ aPc \in {"errbody", "body"}
    /\ aBody = "reading"
    /\ aBody' = "failed"
    /\ IF aPc = "errbody"
       THEN Reject(aOp, HandleErrorResponse(aResponse, FALSE), "http")
       ELSE Reject(aOp, JsError("TypeError", "Failed to fetch"), "body")
    /\ UNCHANGED <<aOp, aArg, aOptions, aNet, aResponse, aRace, aTimer, aDeadline, aStart,
                   aRequests, now, dom>>
    /\ UNCHANGED NotApi

\* A call of downloadBlob.
downloadBlob ==
    /\ dom.next <= MaxDownloads
    /\ dom' = [RunDom(dom, DownloadBlobSteps) EXCEPT !.callers = Append(@, "downloadBlob")]
    /\ UNCHANGED <<aOp, aArg, aOptions, aPc, aOutcome, aCause, aNet, aResponse, aRace,
                   aTimer, aDeadline, aStart, aRequests, aBody, now>>
    /\ UNCHANGED NotApi

\* Time passes; a timer that is due fires before it passes further.
Tick ==
    /\ now < MaxTicks
    /\ ~(aTimer = "armed" /\ NowMs >= aDeadline)
    /\ now' = now + 1
    /\ UNCHANGED <<aOp, aArg, aOptions, aPc, aOutcome, aCause, aNet, aResponse, aRace,
                   aTimer, aDeadline, aStart, aRequests, aBody, dom>>
    /\ UNCHANGED NotApi

NextApi ==
    \/ \E op \in ApiOps : \E arg \in ApiArgs(op) : \E options \in ApiOptions(op) :
           ApiCall(op, arg, options)
    \/ \E response \in Responses : NetRespond(response)
    \/ NetFail
    \/ TimerFire
    \/ BodyArrives
    \/ BodyFails
    \/ downloadBlob
    \/ Tick

(***************************************************************************)
(* DropZone.                                                               *)
(***************************************************************************)
\* Bound: the longest list of files dropped or picked at once.
MaxDropped == 2

\* Bound: the file reads FileConverter has in flight at once.
MaxPending == 2

DzMaxFileSize == 10 * 1024 * 1024

\* The acceptedTypes prop: its default, and a list of MIME types.
DzAcceptedTypesProps == {{".json"}, {"application/json", "text/plain"}}

DzFileKinds ==
    { [type |-> "application/json", size |-> 1024, readOk |-> TRUE, content |-> "{\"a\":1}"],
      [type |-> "application/json", size |-> DzMaxFileSize + 1, readOk |-> TRUE, content |-> "{}"],
      [type |-> "image/png", size |-> 1024, readOk |-> TRUE, content |-> "{}"] }

DzFileLists ==
    UNION { { [i \in 1..n |-> MkFile(i, ks[i])] : ks \in [1..n -> DzFileKinds] } : n \in 0..MaxDropped }

JsBool(b) == Bool(IF b THEN "true" ELSE "false")

\* x.p, for p one of isValid and error: the field of a validation result
\* {isValid, error}; undefined on a primitive, which has no such property.
GetProp(x, p) ==
    IF x.t = "validation"
    THEN IF p = "isValid" THEN x.isValid ELSE x.error
    ELSE Undefined

\* validateFiles on one file, added to the lists so far.
ValidateOne(acc, file) ==
    LET typeValidation == JsBool(validateFileType(file, dzAcceptedTypes))
        sizeValidation == JsBool(validateFileSize(file, DzMaxFileSize))
    IN  IF ~ToBoolean(GetProp(typeValidation, "isValid"))
        THEN [acc EXCEPT !.errors = Append(@, [file |-> Str(file.name),
                                               message |-> GetProp(typeValidation, "error")])]
        ELSE IF ~ToBoolean(GetProp(sizeValidation, "isValid"))
        THEN [acc EXCEPT !.errors = Append(@, [file |-> Str(file.name),
                                               message |-> GetProp(sizeValidation, "error")])]
        ELSE [acc EXCEPT !.validFiles = Append(@, file)]

RECURSIVE ValidateFrom(_, _)
ValidateFrom(acc, fileList) ==
    IF fileList = <<>> THEN acc
    ELSE ValidateFrom(ValidateOne(acc, Head(fileList)), Tail(fileList))

validateFiles(fileList) == ValidateFrom([validFiles |-> <<>>, errors |-> <<>>], fileList)

isDragEventWithFiles(hasFiles) == hasFiles

NoIntake ==
    [done |-> FALSE, batch |-> <<>>, validFiles |-> <<>>, errors |-> <<>>,
     before |-> <<>>]

\* A drop event: its dataTransfer (absent, or holding a list of files) and
\* the two flags preventDefault and stopPropagation set.
DropEvent(dataTransfer, files) ==
    [dataTransfer |-> dataTransfer, files |-> files,
     defaultPrevented |-> FALSE, propagationStopped |-> FALSE]

DropEvents ==
    {DropEvent(TRUE, fileList) : fileList \in DzFileLists} \cup {DropEvent(FALSE, <<>>)}

\* handleFileDrop that returns the (empty) list where handleFileDrop throws.
handleFileDropReturnsEmpty(event) ==
    [event |-> [event EXCEPT !.defaultPrevented = TRUE, !.propagationStopped = TRUE],
     threw |-> FALSE, message |-> "", files |-> event.files]

\* handleFileDrop: the event after the call, and the list returned or the
\* error thrown.
handleFileDrop(event) ==
    LET e == [event EXCEPT !.defaultPrevented = TRUE, !.propagationStopped = TRUE]
    IN  IF ~event.dataTransfer \/ Len(event.files) = 0
        THEN [event |-> e, threw |-> TRUE, message |-> "No files dropped", files |-> <<>>]
        ELSE [event |-> e, threw |-> FALSE, message |-> "", files |-> event.files]

\* The latest event when it was a drop: who handled it, the event as it came,
\* the outcome of handleFileDrop when it was called, and the selection and
\* the number of onFilesSelected calls before it.
NoDrop == [by |-> "none"]

Drop(by, event, called, filesBefore, selectedBefore) ==
    [by |-> by, in |-> event, called |-> called,
     out |-> IF called THEN handleFileDrop(event) ELSE [threw |-> FALSE],
     filesBefore |-> filesBefore, selectedBefore |-> selectedBefore]

NoDrag == [type |-> "none", hasFiles |-> FALSE, inside |-> FALSE, before |-> FALSE]

DragEvent(type, hasFiles, inside, before) ==
    [type |-> type, hasFiles |-> hasFiles, inside |-> inside, before |-> before]

\* validateFiles, setErrors and, when a file was accepted, setFiles and
\* onFilesSelected: the part handleDrop and handleFileInputChange share.
Intake(fileList) ==
    LET validated == validateFiles(fileList)
        validFiles == validated.validFiles
        filesToAdd == IF dzMultiple THEN validFiles ELSE <<validFiles[1]>>
        newFiles == IF dzMultiple THEN dzFiles \o filesToAdd ELSE filesToAdd
    IN  /\ dzErrors' = validated.errors
        /\ dzIntake' = [done |-> TRUE, batch |-> fileList, validFiles |-> validFiles,
                        errors |-> validated.errors, before |-> dzFiles]
        /\ IF Len(validFiles) > 0
           THEN /\ dzFiles' = newFiles
                /\ dzSelected' = Append(dzSelected, newFiles)
           ELSE UNCHANGED <<dzFiles, dzSelected>>

dzProps == <<mounted, dzMultiple, dzDisabled, dzAcceptedTypes>>

fcVars == <<dragActive, fcJsonInput, fcError, fcReads, fcLastDrag, fcLatest>>

appVars ==
    <<appJsonInput, appIsLoading, appStatus, appError, appPc, appConversions,
      appDownloads, appTimers, appNow, appReads, appLatest, appEdited>>

handleDragEnter(hasFiles) ==
    /\ mounted = "DropZone"
    /\ dzLastDrag' = DragEvent("dragenter", hasFiles, FALSE, isDragOver)
    /\ IF dzDisabled \/ ~isDragEventWithFiles(hasFiles)
       THEN UNCHANGED isDragOver
       ELSE isDragOver' = TRUE
    /\ dzDrop' = NoDrop
    /\ UNCHANGED <<dzProps, dzFiles, dzErrors, dzSelected, dzIntake, fcVars, appVars>>
    /\ UNCHANGED NotDrop

\* handleDragLeave without the test of the related target.
handleDragLeaveAlwaysClears(inside) ==
    /\ mounted = "DropZone"
    /\ dzLastDrag' = DragEvent("dragleave", FALSE, inside, isDragOver)
    /\ isDragOver' = FALSE
    /\ dzDrop' = NoDrop
    /\ UNCHANGED <<dzProps, dzFiles, dzErrors, dzSelected, dzIntake, fcVars, appVars>>
    /\ UNCHANGED NotDrop

\* inside: the pointer moved to an element inside the drop zone.
handleDragLeave(inside) ==
    /\ mounted = "DropZone"
    /\ dzLastDrag' = DragEvent("dragleave", FALSE, inside, isDragOver)
    /\ IF inside
       THEN UNCHANGED isDragOver
       ELSE isDragOver' = FALSE
    /\ dzDrop' = NoDrop
    /\ UNCHANGED <<dzProps, dzFiles, dzErrors, dzSelected, dzIntake, fcVars, appVars>>
    /\ UNCHANGED NotDrop

handleDragOver ==
    /\ mounted = "DropZone"
    /\ dzLastDrag' = DragEvent("dragover", FALSE, FALSE, isDragOver)
    /\ dzDrop' = NoDrop
    /\ UNCHANGED <<dzProps, isDragOver, dzFiles, dzErrors, dzSelected, dzIntake, fcVars, appVars>>
    /\ UNCHANGED NotDrop

\* handleDrop of DropZone, on the drop event e.
handleDrop(e) ==
    /\ mounted = "DropZone"
    /\ dzLastDrag' = DragEvent("drop", Len(e.files) > 0, FALSE, isDragOver)
    /\ isDragOver' = FALSE
    /\ dzDrop' = Drop("DropZone", e, ~dzDisabled, dzFiles, Len(dzSelected))
    /\ IF dzDisabled
       THEN UNCHANGED <<dzFiles, dzErrors, dzSelected, dzIntake>>
       ELSE LET droppedFiles == handleFileDrop(e)
            IN  IF droppedFiles.threw
                THEN /\ dzErrors' =
                          << [file |-> Undefined,
                              message |-> Str("Error processing dropped files: "
                                              \o droppedFiles.message)] >>
                     /\ UNCHANGED <<dzFiles, dzSelected, dzIntake>>
                ELSE Intake(droppedFiles.files)
    /\ UNCHANGED <<dzProps, fcVars, appVars>>
    /\ UNCHANGED NotDrop

handleFileInputChange(fileList) ==
    /\ mounted = "DropZone"
    /\ IF Len(fileList) = 0
       THEN UNCHANGED <<dzFiles, dzErrors, dzSelected, dzIntake>>
       ELSE Intake(fileList)
    /\ dzDrop' = NoDrop
    /\ UNCHANGED <<dzProps, isDragOver, dzLastDrag, fcVars, appVars>>
    /\ UNCHANGED NotDrop

\* removeFile, bound to the button of the file at indexToRemove (an index
\* from 0) in the list of selected files.
removeFile(indexToRemove) ==
    /\ mounted = "DropZone"
    /\ indexToRemove \in 0..(Len(dzFiles) - 1)
    /\ LET newFiles == SubSeq(dzFiles, 1, indexToRemove)
                        \o SubSeq(dzFiles, indexToRemove + 2, Len(dzFiles))
       IN  /\ dzFiles' = newFiles
           /\ dzSelected' = Append(dzSelected, newFiles)
    /\ dzDrop' = NoDrop
    /\ UNCHANGED <<dzProps, isDragOver, dzErrors, dzIntake, dzLastDrag, fcVars, appVars>>
    /\ UNCHANGED NotDrop

\* clearAllFiles, bound to the button shown above two or more selected files.
clearAllFiles ==
    /\ mounted = "DropZone"
    /\ Len(dzFiles) > 1
    /\ dzFiles' = <<>>
    /\ dzErrors' = <<>>
    /\ dzSelected' = Append(dzSelected, <<>>)
    /\ dzDrop' = NoDrop
    /\ UNCHANGED <<dzProps, isDragOver, dzIntake, dzLastDrag, fcVars, appVars>>
    /\ UNCHANGED NotDrop

\* The buttons of removeFile and clearAllFiles exist only while files are
\* selected.  validateFiles accepts no file, so the selection stays empty and
\* neither handler can run: they are no disjuncts of NextDrop.
NoFileButtons == dzFiles = <<>> /\ ~ENABLED removeFile(0) /\ ~ENABLED clearAllFiles

(***************************************************************************)
(* FileConverter.                                                          *)
(***************************************************************************)
\* The JSON file supplied last: none yet, or the text of the file.
NoneSupplied == [supplied |-> FALSE, content |-> ""]

Supplied(content) == [supplied |-> TRUE, content |-> content]

FcFiles ==
    { [name |-> "a.json", type |-> "application/json", content |-> "{\"a\":1}"],
      [name |-> "b.json", type |-> "", content |-> "[1]"],
      [name |-> "notes.txt", type |-> "text/plain", content |-> "hello"] }

FcFileLists ==
    UNION { [1..n -> FcFiles] : n \in 0..MaxDropped }

EndsWithJson(name) == name \in {"a.json", "b.json"}

dzVars ==
    <<dzMultiple, dzDisabled, dzAcceptedTypes, isDragOver, dzFiles, dzErrors,
      dzSelected, dzIntake, dzLastDrag, dzDrop>>

\* handleDrag, bound to dragenter, dragleave and dragover.
FcHandleDrag(type) ==
    /\ mounted = "FileConverter"
    /\ fcLastDrag' = type
    /\ IF type = "dragenter" \/ type = "dragover"
       THEN dragActive' = TRUE
       ELSE IF type = "dragleave"
       THEN dragActive' = FALSE
       ELSE UNCHANGED dragActive
    /\ UNCHANGED <<mounted, dzVars, appVars, fcJsonInput, fcError, fcReads, fcLatest>>
    /\ UNCHANGED NotDrop

\* The part handleDrop and handleFileUpload share: a JSON file is read (the
\* model starts no read beyond MaxPending in flight).
FcTakeFile(file) ==
    IF file.type = "application/json" \/ EndsWithJson(file.name)
    THEN /\ Len(fcReads) < MaxPending
         /\ fcReads' = Append(fcReads, file.content)
         /\ fcLatest' = Supplied(file.content)
         /\ UNCHANGED <<fcJsonInput, fcError>>
    ELSE /\ fcError' = "Please upload a valid JSON file"
         /\ UNCHANGED <<fcJsonInput, fcReads, fcLatest>>

FcHandleDrop(fileList) ==
    /\ mounted = "FileConverter"
    /\ fcLastDrag' = "drop"
    /\ dragActive' = FALSE
    /\ IF Len(fileList) > 0
       THEN FcTakeFile(fileList[1])
       ELSE UNCHANGED <<fcJsonInput, fcError, fcReads, fcLatest>>
    /\ UNCHANGED <<mounted, dzVars, appVars>>
    /\ UNCHANGED NotDrop

FcHandleFileUpload(fileList) ==
    /\ mounted = "FileConverter"
    /\ IF Len(fileList) > 0
       THEN FcTakeFile(fileList[1])
       ELSE UNCHANGED <<fcJsonInput, fcError, fcReads, fcLatest>>
    /\ UNCHANGED <<mounted, dzVars, appVars, dragActive, fcLastDrag>>
    /\ UNCHANGED NotDrop

\* reader.onload of the i-th read in flight.
FcReaderOnload(i) ==
    /\ mounted = "FileConverter"
    /\ i \in 1..Len(fcReads)
    /\ fcJsonInput' = fcReads[i]
    /\ fcError' = ""
    /\ fcReads' = SubSeq(fcReads, 1, i - 1) \o SubSeq(fcReads, i + 1, Len(fcReads))
    /\ UNCHANGED <<mounted, dzVars, appVars, dragActive, fcLastDrag, fcLatest>>
    /\ UNCHANGED NotDrop

(***************************************************************************)
(* App.                                                                    *)
(***************************************************************************)
\* The delay of the timer that clears the success message, in milliseconds.
STATUS_CLEAR_DELAY == 3000

\* The length of a tick of App's clock, in milliseconds.
AppTickMs == 1000

\* Bound: the ticks App's clock runs for.
MaxAppTicks == 4

\* Bound: the conversions started in one behaviour.
MaxConversions == 2

AppFiles ==
    { [name |-> "a.json", type |-> "application/json", content |-> "{\"a\":1}"],
      [name |-> "b.json", type |-> "application/json", content |-> "[1]"],
      [name |-> "c.json", type |-> "", content |-> "{}"] }

\* The file input takes one file; a cancelled dialog gives none.
AppFileLists == {<<>>} \cup {<<f>> : f \in AppFiles}

\* The texts typed into the textarea.
AppTexts == {"", "not json", "{\"a\":1}"}

\* text.trim(), as a truth value: the text has more than white space.
TrimNotEmpty(text) == text \notin {"", " "}

validateJSON(text) == JSONparse(text) # SyntaxError

\* JSON.stringify(JSON.parse(text), null, 2)
Pretty(text) ==
    CASE text \in {"{\"a\":1}", "{\n  \"a\": 1\n}"} -> "{\n  \"a\": 1\n}"
      [] text \in {"[1]", "[\n  1\n]"} -> "[\n  1\n]"
      [] OTHER -> text

InitApp ==
    /\ appJsonInput = ""
    /\ appIsLoading = FALSE
    /\ appStatus = ""
    /\ appError = ""
    /\ appPc = "idle"
    /\ appConversions = 0
    /\ appDownloads = 0
    /\ appTimers = {}
    /\ appNow = 0
    /\ appReads = <<>>
    /\ appLatest = NoneSupplied
    /\ appEdited = FALSE

NotApp == <<dzVars, fcVars>>

\* convertToZip up to its first await.  The Convert button is disabled while
\* the input is empty or invalid or a conversion runs, so the two checks at
\* the head of the function pass whenever it is called.
AppConvertToZip ==
    /\ mounted = "App"
    /\ TrimNotEmpty(appJsonInput) /\ validateJSON(appJsonInput) /\ ~appIsLoading
    /\ appConversions < MaxConversions
    /\ IF ~TrimNotEmpty(appJsonInput)
       THEN /\ appError' = "Please enter JSON data"
            /\ UNCHANGED <<appIsLoading, appStatus, appPc, appConversions>>
       ELSE IF ~validateJSON(appJsonInput)
       THEN /\ appError' = "Invalid JSON format"
            /\ UNCHANGED <<appIsLoading, appStatus, appPc, appConversions>>
       ELSE /\ appIsLoading' = TRUE
            /\ appError' = ""
            /\ appStatus' = "Converting JSON to ZIP..."
            /\ appPc' = "fetch"
            /\ appConversions' = appConversions + 1
    /\ UNCHANGED <<appJsonInput, appDownloads, appTimers, appNow, appReads,
                   appLatest, appEdited>>
    /\ UNCHANGED <<mounted, NotApp>>
    /\ UNCHANGED NotDrop

\* The catch and finally blocks of convertToZip.
AppCatch ==
    /\ appError' = "Failed to convert JSON to ZIP. Please try again."
    /\ appIsLoading' = FALSE
    /\ appPc' = "idle"
    /\ UNCHANGED <<appStatus, appDownloads, appTimers>>

\* The fetch fulfils with a response, ok or not.
AppFetchResponds(ok) ==
    /\ mounted = "App"
    /\ appPc = "fetch"
    /\ IF ok
       THEN /\ appPc' = "blob"
            /\ UNCHANGED <<appError, appIsLoading, appStatus, appDownloads, appTimers>>
       ELSE AppCatch
    /\ UNCHANGED <<appJsonInput, appConversions, appNow, appReads, appLatest, appEdited>>
    /\ UNCHANGED <<mounted, NotApp>>
    /\ UNCHANGED NotDrop

\* The fetch, or the read of the blob, rejects.
AppRequestFails ==
    /\ mounted = "App"
    /\ appPc \in {"fetch", "blob"}
    /\ AppCatch
    /\ UNCHANGED <<appJsonInput, appConversions, appNow, appReads, appLatest, appEdited>>
    /\ UNCHANGED <<mounted, NotApp>>
    /\ UNCHANGED NotDrop

\* response.blob() fulfils: the download, the success message, the timer
\* that clears it, and the finally block.
AppBlobArrives ==
    /\ mounted = "App"
    /\ appPc = "blob"
    /\ appDownloads' = appDownloads + 1
    /\ appStatus' = "ZIP file downloaded successfully!"
    /\ appTimers' = appTimers \cup {appNow * AppTickMs + STATUS_CLEAR_DELAY}
    /\ appIsLoading' = FALSE
    /\ appPc' = "idle"
    /\ UNCHANGED <<appJsonInput, appError, appConversions, appNow, appReads,
                   appLatest, appEdited>>
    /\ UNCHANGED <<mounted, NotApp>>
    /\ UNCHANGED NotDrop

\* A timer set by a conversion that succeeded fires: setStatus('').
AppStatusTimer ==
    /\ mounted = "App"
    /\ \E deadline \in appTimers :
          /\ deadline <= appNow * AppTickMs
          /\ appTimers' = appTimers \ {deadline}
    /\ appStatus' = ""
    /\ UNCHANGED <<appJsonInput, appIsLoading, appError, appPc, appConversions,
                   appDownloads, appNow, appReads, appLatest, appEdited>>
    /\ UNCHANGED <<mounted, NotApp>>
    /\ UNCHANGED NotDrop

\* Time passes; a timer that is due fires before it passes further.
AppTick ==
    /\ mounted = "App"
    /\ appNow < MaxAppTicks
    /\ \A deadline \in appTimers : deadline > appNow * AppTickMs
    /\ appNow' = appNow + 1
    /\ UNCHANGED <<appJsonInput, appIsLoading, appStatus, appError, appPc,
                   appConversions, appDownloads, appTimers, appReads, appLatest,
                   appEdited>>
    /\ UNCHANGED <<mounted, NotApp>>
    /\ UNCHANGED NotDrop

\* handleFileUpload of App (the model starts no read beyond MaxPending in
\* flight).
AppHandleFileUpload(fileList) ==
    /\ mounted = "App"
    /\ IF Len(fileList) > 0 /\ fileList[1].type = "application/json"
       THEN /\ Len(appReads) < MaxPending
            /\ appReads' = Append(appReads, fileList[1].content)
            /\ appLatest' = Supplied(fileList[1].content)
            /\ UNCHANGED appError
       ELSE /\ appError' = "Please select a valid JSON file"
            /\ UNCHANGED <<appReads, appLatest>>
    /\ UNCHANGED <<appJsonInput, appIsLoading, appStatus, appPc, appConversions,
                   appDownloads, appTimers, appNow, appEdited>>
    /\ UNCHANGED <<mounted, NotApp>>
    /\ UNCHANGED NotDrop

\* reader.onload of the i-th read in flight.
AppReaderOnload(i) ==
    /\ mounted = "App"
    /\ i \in 1..Len(appReads)
    /\ appJsonInput' = appReads[i]
    /\ appError' = ""
    /\ appReads' = SubSeq(appReads, 1, i - 1) \o SubSeq(appReads, i + 1, Len(appReads))
    /\ UNCHANGED <<appIsLoading, appStatus, appPc, appConversions, appDownloads,
                   appTimers, appNow, appLatest, appEdited>>
    /\ UNCHANGED <<mounted, NotApp>>
    /\ UNCHANGED NotDrop

\* clearInput; its button is disabled while the input is empty.
AppClearInput ==
    /\ mounted = "App"
    /\ TrimNotEmpty(appJsonInput)
    /\ appJsonInput' = ""
    /\ appError' = ""
    /\ appStatus' = ""
    /\ appEdited' = TRUE
    /\ UNCHANGED <<appIsLoading, appPc, appConversions, appDownloads, appTimers,
                   appNow, appReads, appLatest>>
    /\ UNCHANGED <<mounted, NotApp>>
    /\ UNCHANGED NotDrop

\* formatJSON; its button is disabled while the input is empty.
AppFormatJSON ==
    /\ mounted = "App"
    /\ TrimNotEmpty(appJsonInput)
    /\ IF validateJSON(appJsonInput)
       THEN /\ appJsonInput' = Pretty(appJsonInput)
            /\ appError' = ""
            /\ appEdited' = TRUE
       ELSE /\ appError' = "Cannot format invalid JSON"
            /\ UNCHANGED <<appJsonInput, appEdited>>
    /\ UNCHANGED <<appIsLoading, appStatus, appPc, appConversions, appDownloads,
                   appTimers, appNow, appReads, appLatest>>
    /\ UNCHANGED <<mounted, NotApp>>
    /\ UNCHANGED NotDrop

\* onChange of the textarea.
AppTextareaChange(text) ==
    /\ mounted = "App"
    /\ appJsonInput' = text
    /\ appError' = ""
    /\ appEdited' = TRUE
    /\ UNCHANGED <<appIsLoading, appStatus, appPc, appConversions, appDownloads,
                   appTimers, appNow, appReads, appLatest>>
    /\ UNCHANGED <<mounted, NotApp>>
    /\ UNCHANGED NotDrop

\* A drop handler that only calls handleFileDrop on the event.
CallHandleFileDrop(e) ==
    /\ mounted = "handleFileDrop"
    /\ dzDrop' = Drop("handleFileDrop", e, TRUE, <<>>, 0)
    /\ UNCHANGED <<dzProps, isDragOver, dzFiles, dzErrors, dzSelected, dzIntake,
                   dzLastDrag, fcVars, appVars>>
    /\ UNCHANGED NotDrop

\* No component on the page (the other specifications).
NotMounted ==
    /\ mounted = "none"
    /\ dzMultiple = FALSE
    /\ dzDisabled = FALSE
    /\ dzAcceptedTypes = {".json"}

\* One of the components is on the page, DropZone with some props, or a
\* bare drop target that uses handleFileDrop.
Mounted ==
    /\ mounted \in {"DropZone", "FileConverter", "handleFileDrop", "App"}
    /\ dzMultiple \in BOOLEAN
    /\ dzDisabled \in BOOLEAN
    /\ dzAcceptedTypes \in DzAcceptedTypesProps
    /\ mounted # "DropZone" =>
           (~dzMultiple /\ ~dzDisabled /\ dzAcceptedTypes = {".json"})

\* The components' useState initial values.
InitDrop ==
    /\ isDragOver = FALSE
    /\ dzFiles = <<>>
    /\ dzErrors = <<>>
    /\ dzSelected = <<>>
    /\ dzIntake = NoIntake
    /\ dzLastDrag = NoDrag
    /\ dzDrop = NoDrop
    /\ dragActive = FALSE
    /\ fcJsonInput = ""
    /\ fcError = ""
    /\ fcReads = <<>>
    /\ fcLastDrag = "none"
    /\ fcLatest = NoneSupplied
    /\ InitApp

NextDrop ==
    \/ \E hasFiles \in BOOLEAN : handleDragEnter(hasFiles)
    \/ \E inside \in BOOLEAN : handleDragLeave(inside)
    \/ handleDragOver
    \/ \E e \in DropEvents : handleDrop(e)
    \/ \E e \in DropEvents : CallHandleFileDrop(e)
    \/ \E fileList \in DzFileLists : handleFileInputChange(fileList)
    \/ \E type \in {"dragenter", "dragover", "dragleave"} : FcHandleDrag(type)
    \/ \E fileList \in FcFileLists : FcHandleDrop(fileList)
    \/ \E fileList \in FcFileLists : FcHandleFileUpload(fileList)
    \/ \E i \in 1..MaxPending : FcReaderOnload(i)
    \/ AppConvertToZip
    \/ \E ok \in BOOLEAN : AppFetchResponds(ok)
    \/ AppRequestFails
    \/ AppBlobArrives
    \/ AppStatusTimer
    \/ AppTick
    \/ \E fileList \in AppFileLists : AppHandleFileUpload(fileList)
    \/ \E i \in 1..MaxPending : AppReaderOnload(i)
    \/ AppClearInput
    \/ AppFormatJSON
    \/ \E text \in AppTexts : AppTextareaChange(text)

(***************************************************************************)
(* Claims about parseMultipleJsonFiles.                                    *)
(***************************************************************************)
Range(seq) == {seq[i] : i \in 1..Len(seq)}

\* A file that fails one of the four checks of parseMultipleJsonFiles.
FileFails(f) ==
    \/ f.type \notin DefaultAllowedTypes
    \/ f.size > DefaultMaxSize
    \/ ~f.readOk
    \/ ~validateJsonData(Str(f.content)).isValid

FailingIndexes == {i \in 1..Len(pFiles) : FileFails(pFiles[i])}

FirstFailing == CHOOSE i \in FailingIndexes : \A j \in FailingIndexes : i <= j

\* C1: parseMultipleJsonFiles is fail-fast.  When some file of the list fails
\* the type check, the size check, the read or the JSON validation, the call
\* never fulfils, never goes past the first failing file (no later file is
\* read), and rejects at that file with an error message that contains the
\* file's name; the caller gets no record, also not those of the files
\* parsed before it.
C1_FailFast ==
    (pPc # "idle" /\ FailingIndexes # {}) =>
        /\ pPc # "resolved"
        /\ pOutcome.state # "fulfilled"
        /\ pIdx <= FirstFailing
        /\ \A e \in Range(pReads) : e[2] <= FirstFailing
        /\ pPc = "rejected" =>
              /\ pIdx = FirstFailing
              /\ pOutcome.state = "rejected"
              /\ pOutcome.error[2] = pFiles[FirstFailing].name
              /\ pOutcome.value = <<>>

\* A rejection at the second file, after the first file was parsed and its
\* record pushed.
C1_Witness ==
    /\ pPc = "rejected"
    /\ pIdx = 2
    /\ Len(pResults) = 1
    /\ pOutcome.state = "rejected"

\* C6: the files are processed one at a time in input order.  The read of
\* file n is started only after the read of file n-1 has completed (so at
\* most one read is in flight and reads start in input order), and a call
\* that fulfils returns one record per input file, in input order.
C6_Sequential ==
    /\ \A j \in 1..Len(pReads) :
          pReads[j][1] = "readAsText" =>
              /\ pReads[j][2] = Cardinality({i \in 1..j : pReads[i][1] = "readAsText"})
              /\ pReads[j][2] > 1 => (j > 1 /\ pReads[j - 1] = <<"onload", pReads[j][2] - 1>>)
    /\ pOutcome.state = "fulfilled" =>
          /\ Len(pOutcome.value) = Len(pFiles)
          /\ \A i \in 1..Len(pFiles) :
                /\ pOutcome.value[i].filename = pFiles[i].name
                /\ pOutcome.value[i].size = pFiles[i].size
                /\ pOutcome.value[i].data = JSONparse(pFiles[i].content)

\* A call with two files that fulfilled, both files read.
C6_Witness ==
    /\ pPc = "resolved"
    /\ Len(pFiles) = 2
    /\ Len(pReads) = 4
    /\ Len(pOutcome.value) = 2

(***************************************************************************)
(* Claims about validateJsonData.                                          *)
(***************************************************************************)
\* C8: validateJsonData returns invalid with exactly ["Data is required"] for
\* empty or null input (every falsy value counted as empty), invalid with
\* "Invalid JSON format" for a string that does not parse, invalid with
\* "JSON must be an object or array" for every input that is, or whose string
\* parses to, a number, boolean, string or null, and valid with no errors
\* otherwise.
C8_ValidateJsonDataContract ==
    vCalls > 0 =>
        LET parsed == IF vData.t = "string" THEN JSONparse(vData.v) ELSE vData IN
        IF ~ToBoolean(vData)
        THEN vResult = [isValid |-> FALSE, errors |-> <<"Data is required">>]
        ELSE IF parsed = SyntaxError
        THEN ~vResult.isValid /\ "Invalid JSON format" \in Range(vResult.errors)
        ELSE IF parsed.t \in {"number", "boolean", "string", "null"}
        THEN ~vResult.isValid /\ "JSON must be an object or array" \in Range(vResult.errors)
        ELSE vResult = [isValid |-> TRUE, errors |-> <<>>]

(***************************************************************************)
(* Claims about the API client.                                            *)
(***************************************************************************)
\* What the caller of op receives when the fetch itself rejects.
NetworkFailureError(op) == CatchBlock(op, JsError("TypeError", "Failed to fetch"))

\* C2: a request that exceeds the timeout rejects with an error the caller
\* can tell apart from the error it receives, from the same operation, when
\* the network call itself fails.
C2_TimeoutDistinctFromNetworkFailure ==
    (aPc = "rejected" /\ aCause = "timeout") =>
        aOutcome.error # NetworkFailureError(aOp)

\* C3: every rejection of an API operation is an ApiError with a message and
\* an integer status, whatever it came from: local validation, the timeout,
\* a network failure, a response that is not ok, a failed body read.
C3_UniformErrorShape ==
    aOutcome.state = "rejected" =>
        /\ aOutcome.error.name = "ApiError"
        /\ DOMAIN aOutcome.error = {"name", "message", "status", "data"}
        /\ aOutcome.error.status \in Int
        /\ aOutcome.error.message # ""

\* A rejection by the timeout, which reaches the caller as an ApiError.
C3_Witness ==
    /\ aPc = "rejected"
    /\ aCause = "timeout"
    /\ aOutcome.error.name = "ApiError"

\* C4: an operation answered with a response that is not ok rejects with
\* that response's status, also when the error body cannot be read or
\* parsed: the catch block does not replace it by 500.  With a JSON content
\* type the error's data is the parsed body; otherwise a body text that is
\* not empty is the message (an empty one leaves "HTTP error! status: N").
C4_HttpErrorCarriesStatus ==
    (aPc = "rejected" /\ aCause = "http") =>
        /\ ~ResponseOk(aResponse)
        /\ aOutcome.error.status = aResponse.status
        /\ (aBody = "read" /\ IsJsonContentType(aResponse.contentType)
              /\ JSONparse(aResponse.body) # SyntaxError)
             => aOutcome.error.data = JSONparse(aResponse.body)
        /\ (aBody = "read" /\ ~IsJsonContentType(aResponse.contentType)
              /\ aResponse.body # "")
             => aOutcome.error.message = aResponse.body

\* A 502 whose body is not the JSON it announces: the status is carried.
C4_Witness ==
    /\ aPc = "rejected"
    /\ aCause = "http"
    /\ aResponse.status = 502
    /\ aBody = "read"
    /\ aOutcome.error.status = 502

\* C5: an operation has settled once more than the timeout has passed since
\* it was started, whatever the server does.
C5_SettlesWithinTimeout ==
    (aPc # "idle" /\ NowMs > aStart + REQUEST_TIMEOUT) =>
        aPc \in {"resolved", "rejected"}

\* C9: every download runs in the order object URL created, anchor created,
\* anchor attached, anchor clicked, then anchor removed and URL revoked; when
\* it is over no object URL is left unrevoked and no anchor is left in the
\* document; and every conversion that fulfils has triggered a download.
C9_DownloadOrderAndCleanup ==
    /\ dom.urls = {}
    /\ dom.attached = {}
    /\ Len(dom.log) = 6 * (dom.next - 1)
    /\ dom.downloads = dom.next - 1
    /\ \A k \in 0..(dom.next - 2) :
          /\ dom.log[6 * k + 1] = "createObjectURL"
          /\ dom.log[6 * k + 2] = "createElement"
          /\ dom.log[6 * k + 3] = "appendChild"
          /\ dom.log[6 * k + 4] = "click"
          /\ {dom.log[6 * k + 5], dom.log[6 * k + 6]} = {"removeChild", "revokeObjectURL"}
    /\ (aPc = "resolved" /\ aOp \in BlobOps) => dom.downloads >= 1

\* An upload conversion that fulfilled, after a downloadBlob call.
C9_Witness ==
    /\ aPc = "resolved"
    /\ aOp = "uploadAndConvertJson"
    /\ dom.downloads = 2

(***************************************************************************)
(* Claims about DropZone and FileConverter.                                *)
(***************************************************************************)
\* C7: on a drop or a file-picker selection every file is either accepted or
\* rejected, never both: a file whose type is among the accepted types and
\* whose size is within the limit is accepted, added to the selection (all
\* of them when multiple is set) and passed to onFilesSelected; any other
\* file is rejected with an error that carries a message.
C7_IntakePartition ==
    dzIntake.done =>
        \A i \in 1..Len(dzIntake.batch) :
            LET f == dzIntake.batch[i]
                accepted == f \in Range(dzIntake.validFiles)
                rejections == {e \in Range(dzIntake.errors) : e.file = Str(f.name)}
                allowed == f.type \in dzAcceptedTypes /\ f.size <= DzMaxFileSize
            IN  /\ accepted # (rejections # {})
                /\ allowed =>
                      /\ accepted
                      /\ dzSelected # <<>>
                      /\ dzMultiple => f \in Range(dzFiles)
                /\ ~allowed =>
                      /\ rejections # {}
                      /\ \A e \in rejections : e.message.t = "string"

\* C10 as stated: in both components the drag-active state is on after every
\* dragenter and dragover event and off after every dragleave and drop event.
C10_DragStateFollowsEvents ==
    /\ dzLastDrag.type \in {"dragenter", "dragover"} => isDragOver
    /\ dzLastDrag.type \in {"dragleave", "drop"} => ~isDragOver
    /\ fcLastDrag \in {"dragenter", "dragover"} => dragActive
    /\ fcLastDrag \in {"dragleave", "drop"} => ~dragActive

\* C10 amended: in FileConverter the state is on after every dragenter and
\* dragover and off after every dragleave and drop.  In DropZone a dragenter
\* sets it only when the zone is not disabled and the event carries files, a
\* dragover leaves it as it was, a dragleave clears it unless the pointer
\* moved to an element inside the zone (then it stays as it was), and every
\* drop clears it.
C10_DragState ==
    /\ fcLastDrag \in {"dragenter", "dragover"} => dragActive
    /\ fcLastDrag \in {"dragleave", "drop"} => ~dragActive
    /\ dzLastDrag.type = "drop" => ~isDragOver
    /\ (dzLastDrag.type = "dragleave" /\ ~dzLastDrag.inside) => ~isDragOver
    /\ (dzLastDrag.type = "dragleave" /\ dzLastDrag.inside) =>
          isDragOver = dzLastDrag.before
    /\ dzLastDrag.type = "dragover" => isDragOver = dzLastDrag.before
    /\ (dzLastDrag.type = "dragenter" /\ ~dzDisabled /\ dzLastDrag.hasFiles) => isDragOver
    /\ (dzLastDrag.type = "dragenter" /\ (dzDisabled \/ ~dzLastDrag.hasFiles)) =>
          isDragOver = dzLastDrag.before

\* A dragleave to an element inside the active drop zone: it stays active.
C10_Witness ==
    /\ mounted = "DropZone"
    /\ dzLastDrag.type = "dragleave"
    /\ dzLastDrag.inside
    /\ dzLastDrag.before
    /\ isDragOver

(***************************************************************************)
(* The filename utilities, called on a filename.                           *)
(***************************************************************************)
InitUtils ==
    /\ uFn = "none"
    /\ uArg = <<>>
    /\ uResult = <<>>
    /\ rReader = "EMPTY"
    /\ rLog = <<>>

CallSanitizeFilename(filename) ==
    /\ uFn = "none"
    /\ uFn' = "sanitizeFilename"
    /\ uArg' = filename
    /\ uResult' = sanitizeFilename(filename)
    /\ UNCHANGED <<rReader, rLog>>
    /\ UNCHANGED NotUtils

CallGetFileExtension(filename) ==
    /\ uFn = "none"
    /\ uFn' = "getFileExtension"
    /\ uArg' = filename
    /\ uResult' = getFileExtension(filename)
    /\ UNCHANGED <<rReader, rLog>>
    /\ UNCHANGED NotUtils

\* The files handed to the reader functions.
ReadFiles == {MkFile(1, k) : k \in FileKinds}

\* resolve(value) and reject(error) of a promise: they settle a pending
\* promise and do nothing to a settled one.
Resolve(promise, value) ==
    IF promise.state = "pending" THEN Fulfilled(value) ELSE promise

RejectWith(promise, error) ==
    IF promise.state = "pending" THEN Rejected(error) ELSE promise

\* The read method each reader function calls, and what the reader holds as
\* its result after a read of the file that succeeded.
ReadMethod(fn) == IF fn = "readFileAsText" THEN "readAsText" ELSE "readAsArrayBuffer"

ReadResult(fn, file) ==
    IF fn = "readFileAsText"
    THEN [text |-> file.content]
    ELSE [arrayBuffer |-> file.content]

\* The promise executor: a new FileReader, its two handlers, the read started.
StartRead(fn, file) ==
    /\ uFn = "none"
    /\ uFn' = fn
    /\ uArg' = file
    /\ uResult' = Pending
    /\ rReader' = "LOADING"
    /\ rLog' = <<ReadMethod(fn)>>
    /\ UNCHANGED NotUtils

readFileAsText(file) == StartRead("readFileAsText", file)

readFileAsArrayBuffer(file) == StartRead("readFileAsArrayBuffer", file)

\* The read ends well: the load event, reader.onload.
ReaderOnload ==
    /\ rReader = "LOADING"
    /\ uArg.readOk
    /\ rReader' = "DONE"
    /\ uResult' = Resolve(uResult, ReadResult(uFn, uArg))
    /\ rLog' = Append(rLog, "resolve")
    /\ UNCHANGED <<uFn, uArg>>
    /\ UNCHANGED NotUtils

\* reader.onerror that starts the read again.
ReaderOnerrorRetries ==
    /\ rReader = "LOADING"
    /\ ~uArg.readOk
    /\ rReader' = "LOADING"
    /\ rLog' = Append(rLog, ReadMethod(uFn))
    /\ UNCHANGED <<uFn, uArg, uResult>>
    /\ UNCHANGED NotUtils

\* The read fails: the error event, reader.onerror.
ReaderOnerror ==
    /\ rReader = "LOADING"
    /\ ~uArg.readOk
    /\ rReader' = "DONE"
    /\ uResult' = RejectWith(uResult, [type |-> "error"])
    /\ rLog' = Append(rLog, "reject")
    /\ UNCHANGED <<uFn, uArg>>
    /\ UNCHANGED NotUtils

NextUtils ==
    \/ \E filename \in Names : CallSanitizeFilename(filename)
    \/ \E filename \in Names : CallGetFileExtension(filename)
    \/ \E file \in ReadFiles : readFileAsText(file)
    \/ \E file \in ReadFiles : readFileAsArrayBuffer(file)
    \/ ReaderOnload
    \/ ReaderOnerror

(***************************************************************************)
(* Claims about the filename utilities.                                    *)
(***************************************************************************)
HasDot(str) == \E i \in 1..Len(str) : str[i] = "."

LastDot(str) == CHOOSE i \in 1..Len(str) : str[i] = "." /\ \A j \in (i + 1)..Len(str) : str[j] # "."

\* C11: getFileExtension returns the suffix after the last dot of the
\* filename (in lower case), and the empty string for every filename that
\* contains no dot.
C11_FileExtension ==
    uFn = "getFileExtension" =>
        IF HasDot(uArg)
        THEN uResult = toLowerCase(SubSeq(uArg, LastDot(uArg) + 1, Len(uArg)))
        ELSE uResult = <<>>

\* C12 as stated: sanitizeFilename("my file!!.json") is "my_file.json".
C12_SanitizeExampleAsStated ==
    (uFn = "sanitizeFilename"
       /\ uArg = <<"m", "y", " ", "f", "i", "l", "e", "!", "!", ".", "j", "s", "o", "n">>)
      => uResult = <<"m", "y", "_", "f", "i", "l", "e", ".", "j", "s", "o", "n">>

\* C12 amended: sanitizeFilename("my file!!.json") is "my_file_.json": the two
\* exclamation marks become one underscore, which is not at an end of the
\* name and so stays.
C12_SanitizeExample ==
    (uFn = "sanitizeFilename"
       /\ uArg = <<"m", "y", " ", "f", "i", "l", "e", "!", "!", ".", "j", "s", "o", "n">>)
      => uResult = <<"m", "y", "_", "f", "i", "l", "e", "_", ".", "j", "s", "o", "n">>

C12_Witness ==
    /\ uFn = "sanitizeFilename"
    /\ uArg = <<"m", "y", " ", "f", "i", "l", "e", "!", "!", ".", "j", "s", "o", "n">>
    /\ Len(uResult) = 13

\* C13: the result of sanitizeFilename contains only letters, digits, '.',
\* '-' and '_', has no two adjacent underscores, and neither begins nor ends
\* with an underscore.
C13_SanitizedShape ==
    uFn = "sanitizeFilename" =>
        /\ \A i \in 1..Len(uResult) : uResult[i] \in Letters \cup Digits \cup {".", "-", "_"}
        /\ \A i \in 1..(Len(uResult) - 1) : ~(uResult[i] = "_" /\ uResult[i + 1] = "_")
        /\ uResult # <<>> => (uResult[1] # "_" /\ uResult[Len(uResult)] # "_")

\* A name of unsafe characters around a letter: replaced, collapsed, trimmed.
C13_Witness ==
    /\ uFn = "sanitizeFilename"
    /\ uArg = <<" ", "a", "!">>
    /\ uResult = <<"a">>

(***************************************************************************)
(* Claims about handleFileDrop.                                            *)
(***************************************************************************)
DroppedFilesError ==
    << [file |-> Undefined,
        message |-> Str("Error processing dropped files: No files dropped")] >>

\* C14: handleFileDrop suppresses the default action and the propagation of
\* the event, returns the dropped list when it is not empty and fails with
\* an error when there are no files; in DropZone such a failed drop leaves
\* the selection unchanged, does not call onFilesSelected, and replaces the
\* error list by the single 'Error processing dropped files' entry.
C14_FailedDrop ==
    (dzDrop.by # "none" /\ dzDrop.called) =>
        /\ dzDrop.out.event.defaultPrevented
        /\ dzDrop.out.event.propagationStopped
        /\ IF dzDrop.in.dataTransfer /\ Len(dzDrop.in.files) > 0
           THEN ~dzDrop.out.threw /\ dzDrop.out.files = dzDrop.in.files
           ELSE /\ dzDrop.out.threw
                /\ dzDrop.by = "DropZone" =>
                      /\ dzFiles = dzDrop.filesBefore
                      /\ Len(dzSelected) = dzDrop.selectedBefore
                      /\ dzErrors = DroppedFilesError

\* An empty drop on a DropZone that shows errors of an earlier intake.
C14_Witness ==
    /\ dzDrop.by = "DropZone"
    /\ dzDrop.called
    /\ dzDrop.out.threw
    /\ dzIntake.done
    /\ Len(dzIntake.errors) = 2
    /\ dzErrors = DroppedFilesError

(***************************************************************************)
(* Claims about the request options.                                       *)
(***************************************************************************)
JsonConversions == {"convertJsonToZip", "convertMultipleJsonToZip"}

\* The options the server reads in the request of the operation.
SentOptions == aRequests[1].body.options

\* C15 as stated: every key of the caller's options is in the body with the
\* caller's value, and of compression, compressionLevel and fileNaming each
\* one the caller left out is there with "DEFLATE", 6 and "auto".
C15_OptionsAsStated ==
    (aOp \in JsonConversions /\ aRequests # <<>>) =>
        /\ \A k \in DOMAIN aOptions :
               k \in DOMAIN SentOptions /\ SentOptions[k] = aOptions[k]
        /\ \A k \in {"compression", "compressionLevel", "fileNaming"} \ DOMAIN aOptions :
               /\ k \in DOMAIN SentOptions
               /\ SentOptions[k] = CASE k = "compression" -> Str("DEFLATE")
                                     [] k = "compressionLevel" -> Num("6")
                                     [] OTHER -> Str("auto")

\* The defaults each of the two operations writes into its options literal.
OptionDefaults(op) ==
    IF op = "convertJsonToZip"
    THEN ("compression" :> Str("DEFLATE")) @@ ("compressionLevel" :> Num("6"))
         @@ ("createFolders" :> Bool("false"))
    ELSE ("compression" :> Str("DEFLATE")) @@ ("compressionLevel" :> Num("6"))
         @@ ("createSeparateFiles" :> Bool("true")) @@ ("fileNaming" :> Str("auto"))

\* C15 amended: every key the caller supplies with a value other than
\* undefined is in the body with the caller's value, also a falsy one; a key
\* supplied as undefined is not in the body; a key the caller leaves out has
\* the default of the operation (compression "DEFLATE" and compressionLevel
\* 6 in both, createFolders false in convertJsonToZip, createSeparateFiles
\* true and fileNaming "auto" in convertMultipleJsonToZip), and no other key
\* is sent: convertJsonToZip sends no fileNaming of its own.
C15_OptionsPassThrough ==
    (aOp \in JsonConversions /\ aRequests # <<>>) =>
        /\ \A k \in DOMAIN aOptions :
               IF aOptions[k] = Undefined
               THEN k \notin DOMAIN SentOptions
               ELSE k \in DOMAIN SentOptions /\ SentOptions[k] = aOptions[k]
        /\ \A k \in DOMAIN OptionDefaults(aOp) \ DOMAIN aOptions :
               k \in DOMAIN SentOptions /\ SentOptions[k] = OptionDefaults(aOp)[k]
        /\ DOMAIN SentOptions \subseteq DOMAIN aOptions \cup DOMAIN OptionDefaults(aOp)

\* A falsy value the || of the default would replace reaches the server.
C15_Witness ==
    /\ aOp = "convertMultipleJsonToZip"
    /\ aRequests # <<>>
    /\ aOptions = ("createFolders" :> Bool("false")) @@ ("createSeparateFiles" :> Bool("false"))
    /\ SentOptions["createSeparateFiles"] = Bool("false")
    /\ SentOptions["fileNaming"] = Str("auto")

(***************************************************************************)
(* Claims about the reader functions.                                      *)
(***************************************************************************)
ReadFns == {"readFileAsText", "readFileAsArrayBuffer"}

\* How often the call c was made.
Count(c) == Cardinality({i \in 1..Len(rLog) : rLog[i] = c})

\* C16: a call of readFileAsText or readFileAsArrayBuffer starts the read
\* once and never again, and when the read has ended it has settled the
\* promise exactly once: resolved with the file's content when the read
\* succeeded, rejected when it failed, never both.
C16_SettlesOnce ==
    uFn \in ReadFns =>
        /\ Count(ReadMethod(uFn)) = 1
        /\ Count("readAsText") + Count("readAsArrayBuffer") = 1
        /\ Count("resolve") + Count("reject") <= 1
        /\ rReader = "LOADING" => uResult = Pending /\ Len(rLog) = 1
        /\ rReader = "DONE" =>
              IF uArg.readOk
              THEN /\ uResult = Fulfilled(ReadResult(uFn, uArg))
                   /\ Count("resolve") = 1 /\ Count("reject") = 0
              ELSE /\ uResult.state = "rejected"
                   /\ Count("reject") = 1 /\ Count("resolve") = 0

\* A read that failed, its promise rejected.
C16_Witness ==
    /\ uFn = "readFileAsArrayBuffer"
    /\ rReader = "DONE"
    /\ ~uArg.readOk
    /\ uResult.state = "rejected"
    /\ rLog = <<"readAsArrayBuffer", "reject">>

(***************************************************************************)
(* Claims about the race of the fetch and the timer.                       *)
(***************************************************************************)
\* What the caller and the page see of the operation.
Observed == <<aPc, aOutcome, aCause, aBody, aRace, dom>>

\* C17: the first settlement of the race of fetchWithTimeout decides for
\* good.  Once the timer has rejected the operation, a response (or failure)
\* of the fetch that comes later is not handled: the position, the result
\* and the document stay as they are and the operation downloads nothing.
\* Once the fetch has settled first, the timer firing later changes nothing.
C17_FirstSettlementDecides ==
    [][ /\ aRace \in {"fulfilled", "rejected"} => aRace' = aRace
        /\ (aCause = "timeout" /\ aNet' # aNet) => UNCHANGED Observed
        /\ aCause = "timeout" =>
               /\ UNCHANGED <<aPc, aOutcome, aCause, aBody>>
               /\ aOp \notin {dom'.callers[i] : i \in 1..Len(dom'.callers)}
        /\ (aRace \in {"fulfilled", "rejected"} /\ aTimer' # aTimer) => UNCHANGED Observed
      ]_vars

\* The server answers 200 after the timer has rejected the operation.
C17_Witness ==
    /\ aCause = "timeout"
    /\ aNet = "responded"
    /\ ResponseOk(aResponse)
    /\ aOp \in BlobOps
    /\ aPc = "rejected"
    /\ aBody = "none"

(***************************************************************************)
(* Claims about the order of the checks of parseMultipleJsonFiles.         *)
(***************************************************************************)
TypeFails(f) == f.type \notin DefaultAllowedTypes

SizeFails(f) == f.size > DefaultMaxSize

\* The message of the earliest check the file fails, in the order type,
\* size, read, JSON structure.
EarliestReason(f) ==
    IF TypeFails(f) THEN <<"Invalid file type: ", f.type>>
    ELSE IF SizeFails(f) THEN <<"File size exceeds limit">>
    ELSE IF ~f.readOk THEN <<"undefined">>
    ELSE <<"Invalid JSON in ", f.name, ": ">> \o validateJsonData(Str(f.content)).errors

\* C18: parseMultipleJsonFiles checks each file in the order type, size,
\* read as text, JSON structure: a file that fails the type or the size
\* check is never read, and the reason reported for the file that ends the
\* run is that of the earliest check it fails.
C18_CheckOrder ==
    /\ \A i \in 1..Len(pReads) :
           ~TypeFails(pFiles[pReads[i][2]]) /\ ~SizeFails(pFiles[pReads[i][2]])
    /\ pPc = "rejected" =>
           /\ FileFails(pFiles[pIdx])
           /\ pOutcome = Rejected(ProcessingError(pFiles[pIdx], EarliestReason(pFiles[pIdx])))

\* The second file has a type that is not allowed, is too big and cannot be
\* read: the reason is its type, and only the first file was read.
C18_Witness ==
    /\ pPc = "rejected"
    /\ pIdx = 2
    /\ TypeFails(pFiles[2]) /\ SizeFails(pFiles[2]) /\ ~pFiles[2].readOk
    /\ pOutcome.error = <<"Error processing ", "b.json", ": ", "Invalid file type: ", "image/png">>
    /\ pReads = << <<"readAsText", 1>>, <<"onload", 1>> >>

(***************************************************************************)
(* Claims about the selection of DropZone.                                 *)
(***************************************************************************)
\* A file the type and size rules of the DropZone accept.
DzAllowed(f) == f.type \in dzAcceptedTypes /\ f.size <= DzMaxFileSize

\* C19: with multiple = false the selection never holds more than one file,
\* and an intake that has accepted files replaces the selection by the first
\* of them; with multiple = true the accepted files of an intake are
\* appended to the selection there was, in the order of the intake.
C19_Selection ==
    /\ ~dzMultiple => Len(dzFiles) <= 1
    /\ dzIntake.done =>
          LET acceptedFiles == SelectSeq(dzIntake.batch, DzAllowed)
          IN  acceptedFiles # <<>> =>
                  IF dzMultiple
                  THEN dzFiles = dzIntake.before \o acceptedFiles
                  ELSE dzFiles = <<acceptedFiles[1]>>

(***************************************************************************)
(* Claims about the local validation of the API operations.                *)
(***************************************************************************)
Missing(arg) == arg \in {Undefined, Null}

\* The arguments the local validation of an operation is to refuse.
PreconditionFails(op, arg) ==
    CASE op = "convertJsonToZip" -> Missing(arg) \/ arg.t \notin {"object", "array"}
      [] op = "uploadAndConvertJson" -> Missing(arg) \/ arg # File("application/json")
      [] op = "convertMultipleJsonToZip" -> arg.t # "array" \/ arg = Arr("[]")
      [] op = "getConversionStatus" -> Missing(arg) \/ arg = Str("")
      [] OTHER -> FALSE

\* C20: an operation called with an argument its local validation refuses
\* rejects with an ApiError of status 400, and it sends no request, starts
\* no fetch and no timer, and runs no download.
C20_PreconditionRejectsLocally ==
    (aOp # "none" /\ PreconditionFails(aOp, aArg)) =>
        /\ aPc = "rejected"
        /\ aOutcome.state = "rejected"
        /\ aOutcome.error.name = "ApiError"
        /\ aOutcome.error.status = 400
        /\ aRequests = <<>>
        /\ aNet = "none"
        /\ aRace = "none"
        /\ aTimer = "none"
        /\ aBody = "none"
        /\ aOp \notin {dom.callers[i] : i \in 1..Len(dom.callers)}

\* An upload of a text file, refused; the one download is downloadBlob's.
C20_Witness ==
    /\ aOp = "uploadAndConvertJson"
    /\ aArg = File("text/plain")
    /\ aOutcome.state = "rejected"
    /\ aOutcome.error.status = 400
    /\ now > 0
    /\ dom.callers = <<"downloadBlob">>

(***************************************************************************)
(* Claims about FileConverter and App.                                     *)
(***************************************************************************)
\* C21: in FileConverter and in App, when JSON files were supplied and the
\* input was not edited otherwise, then once every read has completed the
\* JSON input holds the content of the file supplied last, whatever the
\* order in which the reads completed.
C21_LatestFileWins ==
    /\ (mounted = "FileConverter" /\ fcLatest.supplied /\ fcReads = <<>>)
           => fcJsonInput = fcLatest.content
    /\ (mounted = "App" /\ appLatest.supplied /\ appReads = <<>> /\ ~appEdited)
           => appJsonInput = appLatest.content

\* C22: in App, while a conversion runs (isLoading is true) the status
\* message is 'Converting JSON to ZIP...'; the timer that clears the success
\* message of an earlier conversion does not touch it.
C22_StatusWhileLoading ==
    appIsLoading => appStatus = "Converting JSON to ZIP..."

(***************************************************************************)
(* Specifications.                                                         *)
(***************************************************************************)
Init == InitValidate /\ InitParse /\ InitApi /\ InitDrop /\ NotMounted /\ InitUtils

InitMounted == InitValidate /\ InitParse /\ InitApi /\ InitDrop /\ Mounted /\ InitUtils

SpecValidate == Init /\ [][NextValidate]_vars

SpecParse == Init /\ [][NextParse]_vars

SpecApi == Init /\ [][NextApi]_vars

SpecDrop == InitMounted /\ [][NextDrop]_vars

SpecUtils == Init /\ [][NextUtils]_vars

====
